---- MODULE Spec2Model ----
(***************************************************************************)
(* Model of static/js/main.js: the page behaviours registered by the       *)
(* DOMContentLoaded handler and the debounce utility.                      *)
(*                                                                         *)
(* Each behaviour is modelled by its own group of variables and its own    *)
(* specification, so that a behaviour's state space is not multiplied by   *)
(* the others':                                                            *)
(*   Spec          page load (the DOMContentLoaded handler, step by step), *)
(*                 tab clicks and reloads                                  *)
(*   SpecPhone     input[type="tel"] input handler                         *)
(*   SpecAjax      form submit handlers (validation and form[data-ajax])   *)
(*   SpecAlert     window.showAlert and the page-load auto-dismiss timer   *)
(*   SpecCopy      .copy-to-clipboard click handler                        *)
(*   SpecPreview   image file input change handler                         *)
(*   SpecDebounce  window.debounce                                         *)
(*                                                                         *)
(* Strings that the code takes apart (the phone field's value) are         *)
(* sequences of one-character strings.  Time is counted in seconds.        *)
(* Timers are punctual: a timer's callback runs when its delay has         *)
(* elapsed, and nothing else happens at or after that instant before it    *)
(* (AlertTimerDue, CopyTimerDue and DebounceTimerDue guard the clock and   *)
(* the events of the timed models).                                        *)
(***************************************************************************)
EXTENDS Integers, Sequences, FiniteSets, TLC

VARIABLES
    \* ---- page load, tab persistence ----
    pc,              \* index in Steps of the next setup of the DOMContentLoaded handler
    registered,      \* the setups that have completed
    thrown,          \* the setup whose error ended the handler, or NONE
    failing,         \* environment: the setup whose framework call throws, or NONE
    tooltipEls,      \* environment: the page has [data-bs-toggle="tooltip"] elements
    popoverEls,      \* environment: the page has [data-bs-toggle="popover"] elements
    links,           \* environment: the hrefs of the page's tab links
    localStorage,    \* the value under the key activeTab, or NONE
    activeTab,       \* const activeTab: the value read at load, or NONE
    shownTab,        \* the href of the tab activated by the restore, or NONE
    lastClicked,     \* history: href of the last-clicked tab trigger, or NONE
    loads,           \* history: number of page loads
    \* ---- form submission ----
    isAjax,          \* environment: the form has data-ajax
    hasReset,        \* environment: the form has data-reset
    hasReload,       \* environment: the form has data-reload
    btnInnerHTML,    \* submitBtn.innerHTML
    btnDisabled,     \* submitBtn.disabled
    wasValidated,    \* the form carries the class was-validated
    inflight,        \* requests not yet settled: [id, originalText] per closure
    nextReq,         \* id of the next submit event and of its request
    location,        \* window.location.href as assigned by the script, or NONE
    reloadPending,   \* a location.reload() timer has been set
    nativeSubmits,   \* submissions the browser carried out itself
    events,          \* history: what each submit event led to
    settled,         \* history: what each settled request led to
    \* ---- alerts ----
    alNow,           \* seconds since DOMContentLoaded
    hasContainer,    \* environment: the page has a .container:first-of-type
    containerKids,   \* the alerts among the container's children, first child first
    bodyKids,        \* the alerts among the body's children, first child first
    alertEls,        \* every alert element: [id, permanent, byShowAlert, shownAt]
    alertTimers,     \* showAlert's pending timers: [id, due]
    pageTimerPending,\* the page-load auto-dismiss timer has not fired yet
    dismissals,      \* history: [id, at, by] for each alert closed
    staleFires,      \* history: timers that fired for an alert already removed
    \* ---- .copy-to-clipboard ----
    cpNow,           \* seconds
    cpInnerHTML,     \* button.innerHTML
    cpSuccess,       \* the button carries the class btn-success
    cpClipboard,     \* the system clipboard's text, or NONE
    cpWrites,        \* navigator.clipboard.writeText promises not yet settled
    cpTimers,        \* pending reset timers: [id, originalHTML, due]
    cpClicks,        \* history: number of clicks
    \* ---- image preview ----
    pvTarget,        \* environment: "ok", "noattr" (no data-preview), "missing" (no such element)
    pvKids,          \* the children of the preview container: [sel, file]
    pvReaders,       \* FileReaders whose read has not completed: [sel, file]
    pvFiles,         \* this.files of the most recent change event
    pvChanges,       \* history: number of change events
    \* ---- debounce ----
    dbNow,           \* time, in units of the clock
    timeout,         \* let timeout: the handle of the last timer set, 0 before any
    dbTimers,        \* the timers set and neither run nor cleared: [id, due, args]
    dbCalls,         \* history: the calls of the wrapper: [at, args]
    dbInvoked,       \* history: the invocations of func: [at, args]
    \* ---- input[type="tel"] ----
    telValue,        \* this.value of the phone field
    telTyped         \* history: the digit keys pressed so far, in order

pageVars == <<pc, registered, thrown, failing, tooltipEls, popoverEls, links,
              localStorage, activeTab, shownTab, lastClicked, loads>>
ajaxVars == <<isAjax, hasReset, hasReload, btnInnerHTML, btnDisabled,
              wasValidated, inflight, nextReq, location, reloadPending,
              nativeSubmits, events, settled>>
alertVars == <<alNow, hasContainer, containerKids, bodyKids, alertEls,
               alertTimers, pageTimerPending, dismissals, staleFires>>
copyVars == <<cpNow, cpInnerHTML, cpSuccess, cpClipboard, cpWrites, cpTimers,
              cpClicks>>
previewVars == <<pvTarget, pvKids, pvReaders, pvFiles, pvChanges>>
debounceVars == <<dbNow, timeout, dbTimers, dbCalls, dbInvoked>>
telVars == <<telValue, telTyped>>

vars == <<pageVars, ajaxVars, alertVars, copyVars, previewVars, debounceVars,
          telVars>>

\* What the actions of one behaviour leave alone: the other behaviours' state.
notPage == <<ajaxVars, alertVars, copyVars, previewVars, debounceVars, telVars>>
notAjax == <<pageVars, alertVars, copyVars, previewVars, debounceVars, telVars>>
notAlert == <<pageVars, ajaxVars, copyVars, previewVars, debounceVars, telVars>>
notCopy == <<pageVars, ajaxVars, alertVars, previewVars, debounceVars, telVars>>
notPreview == <<pageVars, ajaxVars, alertVars, copyVars, debounceVars, telVars>>
notDebounce == <<pageVars, ajaxVars, alertVars, copyVars, previewVars, telVars>>
notTel == <<pageVars, ajaxVars, alertVars, copyVars, previewVars, debounceVars>>

NONE == "none"

(***************************************************************************)
(* input[type="tel"] input handler                                         *)
(***************************************************************************)
\* Bound: number of digits typed into the phone field.
MaxTyped == 12

Digits == {"0", "1", "2", "3", "4", "5", "6", "7", "8", "9"}

\* The characters the model types: two digits and two non-digits.
TelKeys == {"1", "2", "-", "a"}

RECURSIVE StripNonDigits(_)
\* value.replace(/\D/g, '')
StripNonDigits(s) ==
    IF s = <<>> THEN <<>>
    ELSE IF Head(s) \in Digits
         THEN <<Head(s)>> \o StripNonDigits(Tail(s))
         ELSE StripNonDigits(Tail(s))

\* The branch for more than 10 digits with its fourth group dropped.
FormatPhone_NoOverflowGroup(value) ==
    LET n == Len(value) IN
    IF n > 3 /\ n <= 6
    THEN SubSeq(value, 1, 3) \o <<"-">> \o SubSeq(value, 4, n)
    ELSE IF n > 6
    THEN SubSeq(value, 1, 3) \o <<"-">> \o SubSeq(value, 4, 6) \o <<"-">>
             \o SubSeq(value, 7, n)
    ELSE value

\* The if / else-if chain on value.length with its three regex replacements;
\* each regex matches the whole digit string (\d+ is greedy).
FormatPhone(value) ==
    LET n == Len(value) IN
    IF n > 3 /\ n <= 6
    THEN SubSeq(value, 1, 3) \o <<"-">> \o SubSeq(value, 4, n)
    ELSE IF n > 6 /\ n <= 10
    THEN SubSeq(value, 1, 3) \o <<"-">> \o SubSeq(value, 4, 6) \o <<"-">>
             \o SubSeq(value, 7, n)
    ELSE IF n > 10
    THEN SubSeq(value, 1, 3) \o <<"-">> \o SubSeq(value, 4, 6) \o <<"-">>
             \o SubSeq(value, 7, 10) \o <<"-">> \o SubSeq(value, 11, n)
    ELSE value

\* The input handler: strip, regroup, write back.
TelOnInput(fieldValue) == FormatPhone(StripNonDigits(fieldValue))

RECURSIVE TelTypeAll(_, _)
\* The field after typing the characters of keys one at a time, from value v.
TelTypeAll(v, keys) ==
    IF keys = <<>> THEN v
    ELSE TelTypeAll(TelOnInput(Append(v, Head(keys))), Tail(keys))

TelInit ==
    /\ telValue = <<>>
    /\ telTyped = <<>>

\* The user types one character at the end of the field; the browser inserts
\* it and dispatches the input event.
TelType(c) ==
    /\ Len(telTyped) < MaxTyped + (IF c \in Digits THEN 0 ELSE 1)
    /\ telValue' = TelOnInput(Append(telValue, c))
    /\ telTyped' = IF c \in Digits THEN Append(telTyped, c) ELSE telTyped
    /\ UNCHANGED notTel

TelNext == \E c \in TelKeys : TelType(c)

\* The value with its '-' characters removed.
Undashed(v) == SelectSeq(v, LAMBDA ch : ch # "-")

\* The positions of the '-' characters of a value.
DashPositions(v) == {i \in 1..Len(v) : v[i] = "-"}

\* C7: after every input event the phone field holds the digits typed so
\* far, none lost or reordered, non-digits removed, grouped 3-3-4 with the
\* remaining digits as a fourth group: the separators stand exactly after
\* the 3rd, 6th and 10th digit when more digits follow.  Typing 1234567890
\* gives 123-456-7890, and an 11th digit becomes a fourth group.
C7_PhoneGrouping ==
    LET n == Len(telTyped) IN
    /\ Undashed(telValue) = telTyped
    /\ DashPositions(telValue) =
           (IF n > 3 THEN {4} ELSE {}) \cup (IF n > 6 THEN {8} ELSE {})
               \cup (IF n > 10 THEN {13} ELSE {})
    /\ TelTypeAll(<<>>, <<"1", "2", "3", "4", "5", "6", "7", "8", "9", "0">>)
           = <<"1", "2", "3", "-", "4", "5", "6", "-", "7", "8", "9", "0">>
    /\ TelTypeAll(<<>>, <<"1", "2", "3", "4", "5", "6", "7", "8", "9", "0", "1">>)
           = <<"1", "2", "3", "-", "4", "5", "6", "-", "7", "8", "9", "0",
               "-", "1">>

\* Eleven digits and a non-digit have been typed: the fourth group exists.
C7_Witness ==
    /\ Len(telTyped) = 11
    /\ Len(telValue) = 14
    /\ telValue[13] = "-"

(***************************************************************************)
(* The DOMContentLoaded handler, tab persistence                           *)
(***************************************************************************)
\* Bound: number of page loads.
MaxLoads == 3

\* The setups of the DOMContentLoaded handler, in source order.
Steps == << "tooltips", "popovers", "alertTimer", "passwordToggle",
            "formValidation", "charCounter", "telFormat", "imagePreview",
            "ajaxForms", "showAlert", "copyToClipboard", "tabPersist",
            "tabRestore", "smoothScroll" >>

Behaviours == {Steps[i] : i \in 1..Len(Steps)}

StepIndex(name) == CHOOSE i \in 1..Len(Steps) : Steps[i] = name

\* The handler has returned or has been ended by an error.
HandlerEnded == pc = Len(Steps) + 1 \/ thrown # NONE

\* The pages of the site: the hrefs of their tab links.
Pages == { {"#a", "#b"}, {"#b", "#c"}, {} }

\* Tab links that contain an element of their own (an icon).
LinksWithInner == {"#b"}

\* document.querySelector(`a[href="${activeTab}"]`): the link, or NONE.
QueryTab(stored, pageLinks) == IF stored \in pageLinks THEN stored ELSE NONE

\* One setup of the handler: it completes, or its error ends the handler
\* (the handler has no try/catch: what follows the throw is not run).
RunStep(name, throws) ==
    /\ pc = StepIndex(name)
    /\ thrown = NONE
    /\ IF throws
       THEN /\ thrown' = name
            /\ UNCHANGED <<pc, registered>>
       ELSE /\ thrown' = NONE
            /\ pc' = pc + 1
            /\ registered' = registered \cup {name}

PageEnv == <<failing, tooltipEls, popoverEls, links, loads>>

\* new bootstrap.Tooltip(el) for each tooltip element
InitTooltips ==
    /\ RunStep("tooltips", tooltipEls /\ failing = "tooltips")
    /\ UNCHANGED <<PageEnv, localStorage, activeTab, shownTab, lastClicked>>
    /\ UNCHANGED notPage

\* new bootstrap.Popover(el) for each popover element
InitPopovers ==
    /\ RunStep("popovers", popoverEls /\ failing = "popovers")
    /\ UNCHANGED <<PageEnv, localStorage, activeTab, shownTab, lastClicked>>
    /\ UNCHANGED notPage

\* A setup that only registers listeners, a timer or a global.
InitPlain(name) ==
    /\ RunStep(name, FALSE)
    /\ UNCHANGED <<PageEnv, localStorage, activeTab, shownTab, lastClicked>>
    /\ UNCHANGED notPage

InitAlertTimer == InitPlain("alertTimer")
InitPasswordToggle == InitPlain("passwordToggle")
InitFormValidation == InitPlain("formValidation")
InitCharCounter == InitPlain("charCounter")
InitTelFormat == InitPlain("telFormat")
InitImagePreview == InitPlain("imagePreview")
InitAjaxForms == InitPlain("ajaxForms")
InitShowAlert == InitPlain("showAlert")
InitCopyToClipboard == InitPlain("copyToClipboard")
InitTabPersist == InitPlain("tabPersist")
InitSmoothScroll == InitPlain("smoothScroll")

\* The load-time restore: read the key; if set and a link matches, show it.
InitTabRestore ==
    LET stored == localStorage
        tabElement == IF stored = NONE THEN NONE ELSE QueryTab(stored, links)
        throws == tabElement # NONE /\ failing = "tabRestore"
    IN /\ RunStep("tabRestore", throws)
       /\ activeTab' = stored
       /\ shownTab' = IF tabElement # NONE /\ ~throws THEN tabElement ELSE NONE
       /\ UNCHANGED <<PageEnv, localStorage, lastClicked>>
       /\ UNCHANGED notPage

\* e.target.getAttribute('href'), as setItem stores it: the target is the
\* innermost element clicked; an element without href gives null, which
\* setItem stores as the string "null".
StoredOnClick(href, target) == IF target = "link" THEN href ELSE "null"

\* A click on a tab trigger of the page (on the link or on its inner element).
TabClick(href, target) ==
    /\ HandlerEnded
    /\ "tabPersist" \in registered
    /\ href \in links
    /\ target = "inner" => href \in LinksWithInner
    /\ localStorage' = StoredOnClick(href, target)
    /\ lastClicked' = href
    /\ UNCHANGED <<pc, registered, thrown, PageEnv, activeTab, shownTab>>
    /\ UNCHANGED notPage

\* The user opens a page of the site: a new document, the same storage.
Reload(page) ==
    /\ HandlerEnded
    /\ loads < MaxLoads
    /\ loads' = loads + 1
    /\ links' = page
    /\ pc' = 1
    /\ registered' = {}
    /\ thrown' = NONE
    /\ activeTab' = NONE
    /\ shownTab' = NONE
    /\ UNCHANGED <<failing, tooltipEls, popoverEls, localStorage, lastClicked>>
    /\ UNCHANGED notPage

PageInit ==
    /\ pc = 1
    /\ registered = {}
    /\ thrown = NONE
    /\ failing \in {NONE, "tooltips", "popovers", "tabRestore"}
    /\ tooltipEls \in BOOLEAN
    /\ popoverEls \in BOOLEAN
    /\ links \in Pages
    /\ localStorage = NONE
    /\ activeTab = NONE
    /\ shownTab = NONE
    /\ lastClicked = NONE
    /\ loads = 1

PageNext ==
    \/ InitTooltips
    \/ InitPopovers
    \/ InitAlertTimer
    \/ InitPasswordToggle
    \/ InitFormValidation
    \/ InitCharCounter
    \/ InitTelFormat
    \/ InitImagePreview
    \/ InitAjaxForms
    \/ InitShowAlert
    \/ InitCopyToClipboard
    \/ InitTabPersist
    \/ InitTabRestore
    \/ InitSmoothScroll
    \/ \E href \in {"#a", "#b", "#c"}, target \in {"link", "inner"} :
          TabClick(href, target)
    \/ \E page \in Pages : Reload(page)

\* C9: when the handler has ended, every behaviour other than the one whose
\* setup failed has been set up (its listeners registered, window.showAlert
\* defined).
C9_SetupFailureIsolated ==
    HandlerEnded => \A b \in Behaviours \ {thrown} : b \in registered

\* C6: the key activeTab holds the href of the last-clicked tab trigger; a
\* load activates the link whose href equals the stored value if there is
\* one, and otherwise activates nothing and raises no error; without any tab
\* click the key stays unset.
C6_TabPersistence ==
    /\ lastClicked # NONE => localStorage = lastClicked
    /\ lastClicked = NONE => localStorage = NONE
    /\ (pc > StepIndex("tabRestore") /\ failing # "tabRestore")
          => shownTab = (IF activeTab \in links THEN activeTab ELSE NONE)
    /\ thrown = "tabRestore" => activeTab \in links

(***************************************************************************)
(* Form submission: the validation handler and the form[data-ajax] handler *)
(***************************************************************************)
\* Bound: number of submit events.
MaxSubmits == 2

OriginalLabel == "Submit"
ProcessingLabel == "Processing..."

\* What a request can come to: fetch rejects ("network"), response.json()
\* rejects ("nonjson"), the body is the JSON value null ("null"), or the body
\* is an object with a boolean success and optional message and redirect
\* (NONE: the key is absent; "": present and empty).
Responses ==
    { [kind |-> k, success |-> FALSE, message |-> NONE, redirect |-> NONE] :
        k \in {"network", "nonjson", "null"} }
    \cup [kind : {"object"}, success : BOOLEAN, message : {NONE, "", "bad"},
          redirect : {NONE, "", "/x"}]

\* JavaScript truthiness of an optional string.
Truthy(v) == v # NONE /\ v # ""

\* a || b
OrElse(a, b) == IF Truthy(a) THEN a ELSE b

NoEffect == [alerts |-> <<>>, href |-> NONE, reset |-> FALSE, reload |-> FALSE]

\* showAlert(type, message) as far as this handler is concerned.
Alert(type, message) == [type |-> type, text |-> message]

\* The success branch without its else: the alert is shown on a redirect too.
ThenHandler_AlertOnRedirect(data) ==
    IF data.success
    THEN [alerts |-> <<Alert("success", OrElse(data.message, "Operation successful"))>>,
          href |-> IF Truthy(data.redirect) THEN data.redirect ELSE NONE,
          reset |-> hasReset,
          reload |-> hasReload]
    ELSE [NoEffect EXCEPT
            !.alerts = <<Alert("danger", OrElse(data.message, "An error occurred"))>>]

\* .then(data => {...})
ThenHandler(data) ==
    IF data.success
    THEN IF Truthy(data.redirect)
         THEN [NoEffect EXCEPT !.href = data.redirect]
         ELSE [alerts |-> <<Alert("success", OrElse(data.message, "Operation successful"))>>,
               href |-> NONE,
               reset |-> hasReset,
               reload |-> hasReload]
    ELSE [NoEffect EXCEPT
            !.alerts = <<Alert("danger", OrElse(data.message, "An error occurred"))>>]

\* .catch(error => {...})
CatchHandler ==
    [NoEffect EXCEPT !.alerts = <<Alert("danger", "Network error. Please try again.")>>]

\* fetch(...).then(response => response.json()).then(...).catch(...): a
\* rejection of fetch or of json(), or the TypeError of reading null.success,
\* goes to the catch handler; the then handler does not throw otherwise.
PromiseChain(resp) ==
    IF resp.kind \in {"network", "nonjson", "null"}
    THEN CatchHandler
    ELSE ThenHandler(resp)

\* A submit event on the form.  The listeners run in registration order: the
\* validation handler (stopPropagation does not stop the listeners of the same
\* element), then, on a form[data-ajax], the AJAX handler; the browser then
\* submits the form itself unless a listener prevented the default.
SubmitEvent(valid) ==
    LET preventedByValidation == ~valid
        defaultPrevented == preventedByValidation \/ isAjax
    IN /\ Cardinality(events) < MaxSubmits
       /\ nextReq <= MaxSubmits
       /\ wasValidated' = TRUE
       /\ IF isAjax
          THEN /\ inflight' = inflight \cup
                      {[id |-> nextReq, originalText |-> btnInnerHTML]}
               /\ btnInnerHTML' = ProcessingLabel
               /\ btnDisabled' = TRUE
          ELSE UNCHANGED <<inflight, btnInnerHTML, btnDisabled>>
       /\ nextReq' = nextReq + 1
       /\ nativeSubmits' = nativeSubmits + (IF defaultPrevented THEN 0 ELSE 1)
       /\ events' = events \cup
              {[id |-> nextReq, valid |-> valid,
                preventedByValidation |-> preventedByValidation,
                defaultPrevented |-> defaultPrevented,
                request |-> isAjax]}
       /\ UNCHANGED <<isAjax, hasReset, hasReload, location, reloadPending, settled>>
       /\ UNCHANGED notAjax

\* A request settles: the then or catch handler, then the finally handler.
Settle(req, resp) ==
    LET eff == PromiseChain(resp) IN
    /\ req \in inflight
    /\ inflight' = inflight \ {req}
    /\ location' = IF eff.href # NONE THEN eff.href ELSE location
    /\ wasValidated' = IF eff.reset THEN FALSE ELSE wasValidated
    /\ reloadPending' = (reloadPending \/ eff.reload)
    /\ btnInnerHTML' = req.originalText
    /\ btnDisabled' = FALSE
    /\ settled' = settled \cup
           {[id |-> req.id, resp |-> resp, alerts |-> eff.alerts, href |-> eff.href]}
    /\ UNCHANGED <<isAjax, hasReset, hasReload, nextReq, nativeSubmits, events>>
    /\ UNCHANGED notAjax

AjaxInit ==
    /\ isAjax \in BOOLEAN
    /\ hasReset \in BOOLEAN
    /\ hasReload \in BOOLEAN
    /\ btnInnerHTML = OriginalLabel
    /\ btnDisabled = FALSE
    /\ wasValidated = FALSE
    /\ inflight = {}
    /\ nextReq = 1
    /\ location = NONE
    /\ reloadPending = FALSE
    /\ nativeSubmits = 0
    /\ events = {}
    /\ settled = {}

AjaxNext ==
    \/ \E valid \in BOOLEAN : SubmitEvent(valid)
    \/ \E req \in inflight, resp \in Responses : Settle(req, resp)

\* C1: once every request of an AJAX form has settled, whatever the outcomes
\* and however the submissions overlapped, the submit control is enabled and
\* carries the label it had before the first submission.
C1_ButtonRestored ==
    (settled # {} /\ inflight = {})
        => (~btnDisabled /\ btnInnerHTML = OriginalLabel)

\* C2: the outcome of a submission is decided by the response: success with
\* a redirect navigates there and shows no alert; success without one shows
\* exactly one success alert; success false shows exactly one danger alert
\* with the server's message, or the default text when there is none; a
\* network or parsing failure shows exactly one generic danger alert; no
\* submission shows more than one alert.  (An empty message or redirect
\* counts as none.)
C2_OutcomeByResponse ==
    \A s \in settled :
        LET r == s.resp
            hasRedirect == r.redirect \notin {NONE, ""}
            hasMessage == r.message \notin {NONE, ""}
        IN /\ Len(s.alerts) <= 1
           /\ r.kind = "object" /\ r.success /\ hasRedirect
                => s.href = r.redirect /\ s.alerts = <<>>
           /\ r.kind = "object" /\ r.success /\ ~hasRedirect
                => s.href = NONE /\ Len(s.alerts) = 1 /\ s.alerts[1].type = "success"
           /\ r.kind = "object" /\ ~r.success
                => /\ s.href = NONE
                   /\ s.alerts = << [type |-> "danger",
                                     text |-> IF hasMessage THEN r.message
                                              ELSE "An error occurred"] >>
           /\ r.kind # "object"
                => /\ s.href = NONE
                   /\ s.alerts = << [type |-> "danger",
                                     text |-> "Network error. Please try again."] >>

\* Submissions of each kind of outcome have settled.
C2_Witness ==
    /\ \E s \in settled : s.resp.kind = "object" /\ s.resp.success /\ s.href = "/x"
    /\ \E s \in settled : s.resp.kind = "object" /\ ~s.resp.success
                            /\ s.alerts # <<>> /\ s.alerts[1].text = "bad"

\* C3: a submit event on an invalid form is cancelled: the default is
\* prevented and, on an AJAX form, no request is issued; on a valid form the
\* validation handler does not prevent the default.
C3_InvalidSubmitCancelled ==
    \A e \in events :
        /\ ~e.valid => (e.defaultPrevented /\ ~e.request)
        /\ e.valid => ~e.preventedByValidation

(***************************************************************************)
(* window.showAlert and the page-load auto-dismiss timer                   *)
(***************************************************************************)
\* Bounds: the clock's last second, and the number of showAlert calls.
MaxAlertTime == 7
MaxAlerts == 2

\* setTimeout(..., 5000) of showAlert and of the page-load timer, in seconds.
AlertDelay == 5
PageAlertDelay == 5

\* The alerts the server may have rendered into the page (id 0).
ServerAlerts ==
    { {} } \cup
    { {[id |-> 0, permanent |-> p, byShowAlert |-> FALSE, shownAt |-> 0]} :
        p \in BOOLEAN }

\* alertDiv.parentNode is set: the alert is in the document.
InDom(id) ==
    \/ \E i \in 1..Len(containerKids) : containerKids[i] = id
    \/ \E i \in 1..Len(bodyKids) : bodyKids[i] = id

Without(kids, ids) == SelectSeq(kids, LAMBDA x : x \notin ids)

\* A timer whose delay has elapsed has not run yet.
AlertTimerDue ==
    \/ \E t \in alertTimers : t.due <= alNow
    \/ pageTimerPending /\ alNow >= PageAlertDelay

\* Timers run in the order of their due times, and in the order they were
\* set when due together; the page-load timer was set before any other.
AlertTimerIsNext(t) ==
    /\ ~(pageTimerPending /\ PageAlertDelay <= t.due)
    /\ \A u \in alertTimers : u.due > t.due \/ (u.due = t.due /\ u.id >= t.id)

\* window.showAlert(type, message, permanent): the banner becomes the first
\* child of the container, or of the body when there is no container; a
\* timer is set unless permanent.
ShowAlert(permanent) ==
    LET id == Cardinality({a \in alertEls : a.byShowAlert}) + 1 IN
    /\ id <= MaxAlerts
    /\ ~AlertTimerDue
    /\ alertEls' = alertEls \cup
           {[id |-> id, permanent |-> permanent, byShowAlert |-> TRUE,
             shownAt |-> alNow]}
    /\ IF hasContainer
       THEN containerKids' = <<id>> \o containerKids /\ bodyKids' = bodyKids
       ELSE bodyKids' = <<id>> \o bodyKids /\ containerKids' = containerKids
    /\ alertTimers' = IF permanent THEN alertTimers
                      ELSE alertTimers \cup {[id |-> id, due |-> alNow + AlertDelay]}
    /\ UNCHANGED <<alNow, hasContainer, pageTimerPending, dismissals, staleFires>>
    /\ UNCHANGED notAlert

\* showAlert's timer: close the alert if it is still in the document
\* (bootstrap's close() removes the element).
AlertTimerFires(t) ==
    /\ t \in alertTimers
    /\ t.due <= alNow
    /\ AlertTimerIsNext(t)
    /\ alertTimers' = alertTimers \ {t}
    /\ IF InDom(t.id)
       THEN /\ containerKids' = Without(containerKids, {t.id})
            /\ bodyKids' = Without(bodyKids, {t.id})
            /\ dismissals' = dismissals \cup
                   {[id |-> t.id, at |-> alNow, by |-> "showAlertTimer"]}
            /\ UNCHANGED staleFires
       ELSE /\ staleFires' = staleFires \cup {t.id}
            /\ UNCHANGED <<containerKids, bodyKids, dismissals>>
    /\ UNCHANGED <<alNow, hasContainer, alertEls, pageTimerPending>>
    /\ UNCHANGED notAlert

\* The page-load timer: close every .alert:not(.alert-permanent) that is in
\* the document when the timer fires.
PageTimerFires ==
    LET hit == {a.id : a \in {b \in alertEls : ~b.permanent /\ InDom(b.id)}} IN
    /\ pageTimerPending
    /\ alNow >= PageAlertDelay
    /\ \A u \in alertTimers : u.due >= PageAlertDelay
    /\ pageTimerPending' = FALSE
    /\ containerKids' = Without(containerKids, hit)
    /\ bodyKids' = Without(bodyKids, hit)
    /\ dismissals' = dismissals \cup
           {[id |-> i, at |-> alNow, by |-> "pageLoadTimer"] : i \in hit}
    /\ UNCHANGED <<alNow, hasContainer, alertEls, alertTimers, staleFires>>
    /\ UNCHANGED notAlert

\* The user clicks an alert's btn-close (data-bs-dismiss="alert").
UserCloses(id) ==
    /\ InDom(id)
    /\ ~AlertTimerDue
    /\ containerKids' = Without(containerKids, {id})
    /\ bodyKids' = Without(bodyKids, {id})
    /\ dismissals' = dismissals \cup {[id |-> id, at |-> alNow, by |-> "user"]}
    /\ UNCHANGED <<alNow, hasContainer, alertEls, alertTimers, pageTimerPending,
                   staleFires>>
    /\ UNCHANGED notAlert

\* A second passes; due timers run first.
AlertTick ==
    /\ alNow < MaxAlertTime
    /\ ~AlertTimerDue
    /\ alNow' = alNow + 1
    /\ UNCHANGED <<hasContainer, containerKids, bodyKids, alertEls, alertTimers,
                   pageTimerPending, dismissals, staleFires>>
    /\ UNCHANGED notAlert

AlertInit ==
    /\ alNow = 0
    /\ hasContainer \in BOOLEAN
    /\ alertEls \in ServerAlerts
    /\ containerKids = IF hasContainer /\ alertEls # {} THEN <<0>> ELSE <<>>
    /\ bodyKids = IF ~hasContainer /\ alertEls # {} THEN <<0>> ELSE <<>>
    /\ alertTimers = {}
    /\ pageTimerPending = TRUE
    /\ dismissals = {}
    /\ staleFires = {}

AlertNext ==
    \/ \E permanent \in BOOLEAN : ShowAlert(permanent)
    \/ \E t \in alertTimers : AlertTimerFires(t)
    \/ PageTimerFires
    \/ \E a \in alertEls : UserCloses(a.id)
    \/ AlertTick

\* C8: an alert of showAlert is inserted as the first child of the container
\* (of the body without one); when not permanent, a timer dismisses it 5000 ms
\* after the call and not earlier; a permanent one is dismissed by no timer;
\* a timer that fires for an alert already removed does nothing.
C8_AlertLifetime ==
    /\ IF hasContainer THEN bodyKids = <<>> ELSE containerKids = <<>>
    /\ \A i, j \in 1..Len(containerKids) : i < j => containerKids[i] > containerKids[j]
    /\ \A i, j \in 1..Len(bodyKids) : i < j => bodyKids[i] > bodyKids[j]
    /\ \A a \in {b \in alertEls : b.byShowAlert} :
          /\ \A d \in dismissals :
                (d.id = a.id /\ d.by # "user")
                    => (~a.permanent /\ d.at = a.shownAt + AlertDelay)
          /\ (~a.permanent /\ alNow > a.shownAt + AlertDelay) => ~InDom(a.id)
          /\ Cardinality({d \in dismissals : d.id = a.id}) <= 1

(***************************************************************************)
(* .copy-to-clipboard click handler                                        *)
(***************************************************************************)
\* Bounds: the clock's last second, and the number of clicks.
MaxCopyTime == 5
MaxClicks == 3

\* setTimeout(..., 2000), in seconds.
CopyResetDelay == 2

CopyLabel == "Copy"
CopiedLabel == "Copied!"
ClipboardText == "abc"

CopyTimerDue == \E t \in cpTimers : t.due <= cpNow

\* The click listener: start the clipboard write.
CopyClick ==
    /\ cpClicks < MaxClicks
    /\ ~CopyTimerDue
    /\ cpClicks' = cpClicks + 1
    /\ cpWrites' = cpWrites + 1
    /\ UNCHANGED <<cpNow, cpInnerHTML, cpSuccess, cpClipboard, cpTimers>>
    /\ UNCHANGED notCopy

\* writeText resolved: remember the label, show the confirmation, set the
\* reset timer.
WriteResolves ==
    /\ cpWrites > 0
    /\ ~CopyTimerDue
    /\ cpWrites' = cpWrites - 1
    /\ cpClipboard' = ClipboardText
    /\ cpTimers' = cpTimers \cup
           {[id |-> cpClicks - cpWrites + 1, originalHTML |-> cpInnerHTML,
             due |-> cpNow + CopyResetDelay]}
    /\ cpInnerHTML' = CopiedLabel
    /\ cpSuccess' = TRUE
    /\ UNCHANGED <<cpNow, cpClicks>>
    /\ UNCHANGED notCopy

\* writeText rejected: console.error only.
WriteRejects ==
    /\ cpWrites > 0
    /\ ~CopyTimerDue
    /\ cpWrites' = cpWrites - 1
    /\ UNCHANGED <<cpNow, cpInnerHTML, cpSuccess, cpClipboard, cpTimers, cpClicks>>
    /\ UNCHANGED notCopy

\* The reset timer: put back the remembered label, drop the class.  Timers
\* run in the order of their due times, and in the order they were set when
\* due together.
CopyTimerFires(t) ==
    /\ t \in cpTimers
    /\ t.due <= cpNow
    /\ \A u \in cpTimers : u.due > t.due \/ (u.due = t.due /\ u.id >= t.id)
    /\ cpTimers' = cpTimers \ {t}
    /\ cpInnerHTML' = t.originalHTML
    /\ cpSuccess' = FALSE
    /\ UNCHANGED <<cpNow, cpClipboard, cpWrites, cpClicks>>
    /\ UNCHANGED notCopy

CopyTick ==
    /\ cpNow < MaxCopyTime
    /\ ~CopyTimerDue
    /\ cpNow' = cpNow + 1
    /\ UNCHANGED <<cpInnerHTML, cpSuccess, cpClipboard, cpWrites, cpTimers, cpClicks>>
    /\ UNCHANGED notCopy

CopyInit ==
    /\ cpNow = 0
    /\ cpInnerHTML = CopyLabel
    /\ cpSuccess = FALSE
    /\ cpClipboard = NONE
    /\ cpWrites = 0
    /\ cpTimers = {}
    /\ cpClicks = 0

CopyNext ==
    \/ CopyClick
    \/ WriteResolves
    \/ WriteRejects
    \/ \E t \in cpTimers : CopyTimerFires(t)
    \/ CopyTick

\* C5: after any sequence of clicks, once every clipboard write has settled
\* and every reset timer has fired, the control shows the label it had
\* before it was ever clicked and does not carry the success class; while a
\* confirmation is showing, a reset timer is pending that is due within
\* 2000 ms.
C5_CopyLabelReverts ==
    /\ (cpWrites = 0 /\ cpTimers = {})
          => (cpInnerHTML = CopyLabel /\ ~cpSuccess)
    /\ cpSuccess => \E t \in cpTimers : t.due <= cpNow + CopyResetDelay

(***************************************************************************)
(* input[type="file"][accept^="image"] change handler                      *)
(***************************************************************************)
\* Bound: number of change events.
MaxChanges == 2

\* The selections of a change event: this.files.
Selections == { <<>>, <<"a.png">>, <<"b.png">>, <<"a.png", "b.png">> }

\* What the container holds before the first change event.
Placeholder == [sel |-> 0, file |-> "placeholder"]

\* The change listener: return without a target; otherwise empty the
\* container and start one read per file.
PreviewChange(files) ==
    /\ pvChanges < MaxChanges
    /\ pvChanges' = pvChanges + 1
    /\ pvFiles' = files
    /\ IF pvTarget = "ok"
       THEN /\ pvKids' = <<>>
            /\ pvReaders' = pvReaders \cup
                   {[sel |-> pvChanges + 1, file |-> files[i]] : i \in 1..Len(files)}
       ELSE UNCHANGED <<pvKids, pvReaders>>
    /\ UNCHANGED pvTarget
    /\ UNCHANGED notPreview

\* reader.onload: append the thumbnail to the container.
ReaderLoads(r) ==
    /\ r \in pvReaders
    /\ pvReaders' = pvReaders \ {r}
    /\ pvKids' = Append(pvKids, r)
    /\ UNCHANGED <<pvTarget, pvFiles, pvChanges>>
    /\ UNCHANGED notPreview

PreviewInit ==
    /\ pvTarget \in {"ok", "noattr", "missing"}
    /\ pvKids = <<Placeholder>>
    /\ pvReaders = {}
    /\ pvFiles = <<>>
    /\ pvChanges = 0

PreviewNext ==
    \/ \E files \in Selections : PreviewChange(files)
    \/ \E r \in pvReaders : ReaderLoads(r)

\* C10: with a preview target, once every pending read has completed the
\* container holds exactly one thumbnail per file of the most recent
\* selection and nothing of an earlier one; without a target a change event
\* modifies nothing.
C10_PreviewShowsLatestSelection ==
    /\ (pvTarget = "ok" /\ pvChanges > 0 /\ pvReaders = {})
          => /\ Len(pvKids) = Len(pvFiles)
             /\ \A i \in 1..Len(pvFiles) :
                   \E j \in 1..Len(pvKids) :
                       pvKids[j] = [sel |-> pvChanges, file |-> pvFiles[i]]
    /\ pvTarget # "ok" => (pvKids = <<Placeholder>> /\ pvReaders = {})

(***************************************************************************)
(* window.debounce                                                         *)
(***************************************************************************)
\* Bounds: the clock's last instant, the number of calls of the wrapper, and
\* the wait argument of debounce(func, wait).
MaxDebounceTime == 6
MaxCalls == 3
Wait == 2

\* The arguments of a call.
CallArgs == {"x", "y"}

\* clearTimeout without effect.
ClearTimeout_Noop(timers, handle) == timers

\* clearTimeout(handle): a handle that names no pending timer clears nothing.
ClearTimeout(timers, handle) == {t \in timers : t.id # handle}

DebounceTimerDue == \E t \in dbTimers : t.due <= dbNow

\* executedFunction(...args): clear the pending timer, set a new one.
Call(args) ==
    LET id == Len(dbCalls) + 1 IN
    /\ Len(dbCalls) < MaxCalls
    /\ ~DebounceTimerDue
    /\ dbTimers' = ClearTimeout(dbTimers, timeout) \cup
                      {[id |-> id, due |-> dbNow + Wait, args |-> args]}
    /\ timeout' = id
    /\ dbCalls' = Append(dbCalls, [at |-> dbNow, args |-> args])
    /\ UNCHANGED <<dbNow, dbInvoked>>
    /\ UNCHANGED notDebounce

\* later(): clearTimeout(timeout), then func(...args).
Later(t) ==
    /\ t \in dbTimers
    /\ t.due <= dbNow
    /\ dbTimers' = ClearTimeout(dbTimers \ {t}, timeout)
    /\ dbInvoked' = Append(dbInvoked, [at |-> dbNow, args |-> t.args])
    /\ UNCHANGED <<dbNow, timeout, dbCalls>>
    /\ UNCHANGED notDebounce

DebounceTick ==
    /\ dbNow < MaxDebounceTime
    /\ ~DebounceTimerDue
    /\ dbNow' = dbNow + 1
    /\ UNCHANGED <<timeout, dbTimers, dbCalls, dbInvoked>>
    /\ UNCHANGED notDebounce

DebounceInit ==
    /\ dbNow = 0
    /\ timeout = 0
    /\ dbTimers = {}
    /\ dbCalls = <<>>
    /\ dbInvoked = <<>>

DebounceNext ==
    \/ \E args \in CallArgs : Call(args)
    \/ \E t \in dbTimers : Later(t)
    \/ DebounceTick

\* Call k is the last of its burst: no call follows less than Wait later.
LastOfBurst(k) ==
    k = Len(dbCalls) \/ dbCalls[k + 1].at - dbCalls[k].at >= Wait

\* The calls whose burst is over and whose delay has run out.
BurstsDone ==
    {k \in 1..Len(dbCalls) :
        /\ LastOfBurst(k)
        /\ \/ dbCalls[k].at + Wait < dbNow
           \/ dbCalls[k].at + Wait = dbNow /\ (k < Len(dbCalls) \/ dbTimers = {})}

PageIdle ==
    /\ pc = Len(Steps) + 1
    /\ registered = Behaviours
    /\ thrown = NONE
    /\ failing = NONE
    /\ tooltipEls = FALSE
    /\ popoverEls = FALSE
    /\ links = {}
    /\ localStorage = NONE
    /\ activeTab = NONE
    /\ shownTab = NONE
    /\ lastClicked = NONE
    /\ loads = 1

AjaxIdle ==
    /\ isAjax = FALSE
    /\ hasReset = FALSE
    /\ hasReload = FALSE
    /\ btnInnerHTML = OriginalLabel
    /\ btnDisabled = FALSE
    /\ wasValidated = FALSE
    /\ inflight = {}
    /\ nextReq = 1
    /\ location = NONE
    /\ reloadPending = FALSE
    /\ nativeSubmits = 0
    /\ events = {}
    /\ settled = {}

AlertIdle ==
    /\ alNow = 0
    /\ hasContainer = TRUE
    /\ containerKids = <<>>
    /\ bodyKids = <<>>
    /\ alertEls = {}
    /\ alertTimers = {}
    /\ pageTimerPending = FALSE
    /\ dismissals = {}
    /\ staleFires = {}

CopyIdle == CopyInit

PreviewIdle ==
    /\ pvTarget = "ok"
    /\ pvKids = <<Placeholder>>
    /\ pvReaders = {}
    /\ pvFiles = <<>>
    /\ pvChanges = 0

DebounceIdle == DebounceInit

TelIdle == TelInit

\* Page load, tab clicks and reloads.
Init ==
    PageInit /\ AjaxIdle /\ AlertIdle /\ CopyIdle /\ PreviewIdle /\ DebounceIdle
        /\ TelIdle
Spec == Init /\ [][PageNext]_vars

\* The phone field of a loaded page.
PhoneInit ==
    PageIdle /\ AjaxIdle /\ AlertIdle /\ CopyIdle /\ PreviewIdle /\ DebounceIdle
        /\ TelInit
SpecPhone == PhoneInit /\ [][TelNext]_vars

\* The form of a loaded page.
AjaxSpecInit ==
    PageIdle /\ AjaxInit /\ AlertIdle /\ CopyIdle /\ PreviewIdle /\ DebounceIdle
        /\ TelIdle
SpecAjax == AjaxSpecInit /\ [][AjaxNext]_vars

\* The alerts of a loaded page.
AlertSpecInit ==
    PageIdle /\ AjaxIdle /\ AlertInit /\ CopyIdle /\ PreviewIdle /\ DebounceIdle
        /\ TelIdle
SpecAlert == AlertSpecInit /\ [][AlertNext]_vars

\* A copy button of a loaded page.
CopySpecInit ==
    PageIdle /\ AjaxIdle /\ AlertIdle /\ CopyInit /\ PreviewIdle /\ DebounceIdle
        /\ TelIdle
SpecCopy == CopySpecInit /\ [][CopyNext]_vars

\* An image file input of a loaded page.
PreviewSpecInit ==
    PageIdle /\ AjaxIdle /\ AlertIdle /\ CopyIdle /\ PreviewInit /\ DebounceIdle
        /\ TelIdle
SpecPreview == PreviewSpecInit /\ [][PreviewNext]_vars

\* One debounced function.
DebounceSpecInit ==
    PageIdle /\ AjaxIdle /\ AlertIdle /\ CopyIdle /\ PreviewIdle /\ DebounceInit
        /\ TelIdle
SpecDebounce == DebounceSpecInit /\ [][DebounceNext]_vars

====
